---- MODULE Spec2Model ----
(***************************************************************************)
(* Model of the element-interaction layer (WebElementHandler) and of the   *)
(* site workflow (BetBot) of Red_Packet_Collector.                         *)
(*                                                                         *)
(* One public operation runs at a time (the program is single threaded).   *)
(* `op` names the running operation, `pc` its position, `st` its local     *)
(* variables (named as in the source), `page` the part of the live page    *)
(* and driver the operation observes, `clock` the wall-clock seconds       *)
(* elapsed since the operation started and `result` what it returned:      *)
(* a value, or "raised" when an exception left the operation.              *)
(*                                                                         *)
(* The driver and the page are the environment: every driver call either   *)
(* completes or raises an error, chosen freely.                            *)
(***************************************************************************)
EXTENDS Integers, Sequences, FiniteSets, TLC

VARIABLES op, pc, st, page, clock, result

vars == <<op, pc, st, page, clock, result>>

(***************************************************************************)
(* Bounds of the model.                                                    *)
(***************************************************************************)
\* Largest timeout a caller passes explicitly (0..MaxTimeoutArg, or None).
MaxTimeoutArg == 3
\* Longest text and longest initial field value, in characters.
MaxLen == 2
\* Longest time one click_element call is given, in seconds.
MaxClickDur == 1
\* Number of configured sites (len(SITES)) is 1..MaxSites.
MaxSites == 2
\* Most elements one find_elements query returns.
MaxMatches == 2
\* Seconds by which a timed-out WebDriverWait overshoots its timeout (one poll).
WaitMargin == 1

(***************************************************************************)
(* Program constants (config.py).                                          *)
(***************************************************************************)
element_wait == 10
popup_check == 40
NumPopupSelectors == 4

\* WebElementHandler.__init__: self.default_timeout = TIMEOUTS["element_wait"]
default_timeout == element_wait

(***************************************************************************)
(* Values.                                                                 *)
(***************************************************************************)
\* Python's None for an optional timeout is <<>>, a given timeout t is <<t>>.
None == <<>>
TimeoutArgs == {None} \cup {<<t>> : t \in 0..MaxTimeoutArg}

\* Characters of texts and field values: a digit and a separator.
Alphabet == {"1", "-"}
Texts == UNION {[1..n -> Alphabet] : n \in 0..MaxLen}

Modes == {"present", "visible", "clickable"}

\* Readiness levels of an element: each mode requires the previous one.
Need(mode) == CASE mode = "present" -> 1 [] mode = "visible" -> 2 [] mode = "clickable" -> 3

NoPage == [kind |-> "none"]
NoLocals == [none |-> TRUE]

Ret(r) == pc' = "done" /\ result' = r

(***************************************************************************)
(* WebDriverWait(driver, timeout).until(condition)                         *)
(*                                                                         *)
(* A page behaviour for one wait: the highest readiness level the element  *)
(* reaches (0: never in the DOM), the second `at` at which it reaches it,  *)
(* and, optionally, the second at which the driver raises an error other   *)
(* than "no such element" (which the wait itself ignores).                 *)
(***************************************************************************)
WaitBehaviours(t) ==
    [level : 0..3, at : 0..(t + 1), failAt : {None} \cup {<<f>> : f \in 0..t}]

\* Whether an element in the mode exists by the time the wait gives up.
Appears(mode, t, b) == b.level >= Need(mode) /\ b.at <= t

\* The outcome of the wait: the element, a driver error, or TimeoutException
\* once `t` seconds have passed without a match.
WaitUntil(mode, t, b) ==
    IF b.failAt # None /\ (~Appears(mode, t, b) \/ b.failAt[1] < b.at)
    THEN [res |-> "error", dt |-> b.failAt[1]]
    ELSE IF Appears(mode, t, b)
         THEN [res |-> "found", dt |-> b.at]
         ELSE [res |-> "timeout", dt |-> t + WaitMargin]

\* Every outcome a wait with timeout t can have, over all page behaviours.
WaitOutcomes(mode, t) == {WaitUntil(mode, t, b) : b \in WaitBehaviours(t)}

(***************************************************************************)
(* wait_for_element_present / _visible / _clickable  (resolve)             *)
(***************************************************************************)
\* timeout = timeout or self.default_timeout
EffectiveTimeout(a) == IF a = None \/ a[1] = 0 THEN default_timeout ELSE a[1]

\* try: return WebDriverWait(...).until(...)  except TimeoutException: return None
ResolveCatchMutRaise(w) == IF w.res = "found" THEN "found" ELSE "raised"
ResolveCatch(w) ==
    CASE w.res = "found" -> "found"
      [] w.res = "timeout" -> "none"
      [] OTHER -> "raised"

StartResolve ==
    /\ op = "idle"
    /\ op' = "resolve" /\ pc' = "wait"
    /\ \E m \in Modes, a \in TimeoutArgs :
         \E b \in WaitBehaviours(EffectiveTimeout(a)) :
            /\ st' = [mode |-> m, timeout |-> a, wait |-> None]
            /\ page' = [kind |-> "wait", beh |-> b]
    /\ clock' = 0
    /\ UNCHANGED result

ResolveWait ==
    /\ op = "resolve" /\ pc = "wait"
    /\ LET w == WaitUntil(st.mode, EffectiveTimeout(st.timeout), page.beh) IN
         /\ st' = [st EXCEPT !.wait = <<w.res>>]
         /\ clock' = clock + w.dt
         /\ Ret(ResolveCatch(w))
    /\ UNCHANGED <<op, page>>

(***************************************************************************)
(* Driver calls on the element a handle refers to.                         *)
(*                                                                         *)
(* page.detached: the node of the handle in use has been removed from the  *)
(* document, for good.  From then on every call on the handle raises a     *)
(* staleness error, whose message may ("stale") or may not ("other") hold  *)
(* the words "stale element reference".  On an attached node a call        *)
(* completes ("ok") or raises any error, and the node may be found         *)
(* detached by this very call.  A call is <<outcome, detached afterwards>>.*)
(***************************************************************************)
ElemCalls(detached) ==
    IF detached
    THEN {<<"stale", TRUE>>, <<"other", TRUE>>}
    ELSE {<<"ok", FALSE>>, <<"intercepted", FALSE>>, <<"stale", FALSE>>,
          <<"other", FALSE>>, <<"stale", TRUE>>, <<"other", TRUE>>}

\* element_exists(element): False for None and when is_enabled() raises
\* anything, True when it completes.  A probe is <<answer, detached afterwards>>.
\* lines 389-395: what element_exists returns when the handle is None or when
\* is_enabled() has the outcome k.
ElementExistsCatchMutStaleOnly(isNone, k) ==
    IF isNone THEN "false"
    ELSE IF k = "ok" THEN "true"
    ELSE IF k = "stale" THEN "false" ELSE "raised"
ElementExistsCatch(isNone, k) ==
    IF isNone THEN "false"
    ELSE IF k = "ok" THEN "true" ELSE "false"

ElementExists(isNone, detached) ==
    IF isNone THEN {<<FALSE, detached>>}
    ELSE {<<ElementExistsCatch(FALSE, c[1]) = "true", c[2]>> : c \in ElemCalls(detached)}

\* line 392: is_enabled() only reads the element's state from the page.
ProbeEffectMutEnable(pg) == [pg EXCEPT !.enabled = TRUE]
ProbeEffect(pg) == pg

\* The pages a handle is probed on: its node detached or not, the element
\* enabled or not, with some value.
ProbedPages ==
    [kind : {"element"}, detached : BOOLEAN, enabled : BOOLEAN, value : Texts]

\* element_exists called on its own.  st.before is the page at the call,
\* st.call the outcome of is_enabled(), "absent" when it was not called.
StartElementExists ==
    /\ op = "idle"
    /\ op' = "isLive" /\ pc' = "probe"
    /\ \E e \in {"none", "orig"}, pg \in ProbedPages :
         /\ st' = [element |-> e, call |-> "unset", before |-> pg]
         /\ page' = pg
    /\ UNCHANGED <<clock, result>>

ElementExistsProbe ==
    /\ op = "isLive" /\ pc = "probe"
    /\ \/ \* line 390: if not element: return False
          /\ st.element = "none"
          /\ st' = [st EXCEPT !.call = "absent"]
          /\ Ret(ElementExistsCatch(TRUE, "absent"))
          /\ UNCHANGED page
       \/ \* lines 392-395: is_enabled() completes or raises
          /\ st.element # "none"
          /\ \E c \in ElemCalls(page.detached) :
               /\ c[2] = page.detached
               /\ st' = [st EXCEPT !.call = c[1]]
               /\ Ret(ElementExistsCatch(FALSE, c[1]))
          /\ page' = ProbeEffect(page)
    /\ UNCHANGED <<op, clock>>

(***************************************************************************)
(* click_element(element, description, use_js, try_scroll)                 *)
(*                                                                         *)
(* st.element: "none" (None was passed), "orig" (the handle passed) or     *)
(* "new" (a handle recovery returned).  st.attempt counts the attempts     *)
(* started, st.log lists the click actions issued, st.detAt is where the   *)
(* node was first found detached: <<attempt, position>>.                   *)
(***************************************************************************)
click_attempts == 3

ClickLocals(js, scroll, e) ==
    [use_js |-> js, try_scroll |-> scroll, element |-> e, attempt |-> 0,
     entryLive |-> FALSE, recovered |-> "no", log |-> <<>>, detAt |-> None]

\* Records where the node was first found detached.
NoteDetach(s, after, where) ==
    IF ~page.detached /\ after /\ s.detAt = None
    THEN [s EXCEPT !.detAt = <<s.attempt, where>>] ELSE s

Logged(s, kind, ok) ==
    [s EXCEPT !.log = Append(@, [att |-> s.attempt, kind |-> kind, ok |-> ok,
                                  handle |-> s.element, probed |-> s.entryLive,
                                  recovered |-> s.recovered])]

StartClick ==
    /\ op = "idle"
    /\ op' = "click" /\ pc' = "entry"
    /\ \E js \in BOOLEAN, scroll \in BOOLEAN, e \in {"none", "orig"}, d \in BOOLEAN :
         /\ st' = ClickLocals(js, scroll, e)
         /\ page' = [kind |-> "element", detached |-> d]
    /\ UNCHANGED <<clock, result>>

\* line 110: if not self.element_exists(element)
ClickEntry ==
    /\ op = "click" /\ pc = "entry"
    /\ \E p \in ElementExists(st.element = "none", page.detached) :
         /\ page' = [page EXCEPT !.detached = p[2]]
         /\ st' = [NoteDetach(st, p[2], "entry") EXCEPT !.entryLive = p[1]]
         /\ pc' = IF p[1] THEN "scroll" ELSE "recover"
    /\ UNCHANGED <<op, clock, result>>

\* lines 112-140: recovery of a handle that failed the probe.
ClickRecover ==
    /\ op = "click" /\ pc = "recover"
    /\ \/ \* reading "id" or "class" raises (always, on None or a detached
          \* node), or the class attribute holds no token: except -> False
          /\ Ret("false")
          /\ UNCHANGED <<st, page>>
       \/ \* an id or a class: ensure_valid_element finds the handle live again
          /\ st.element = "orig" /\ ~page.detached
          /\ st' = [st EXCEPT !.recovered = "same"]
          /\ pc' = "scroll"
          /\ UNCHANGED <<page, result>>
       \/ \* an id or a class: ensure_valid_element, or find_similar_element
          \* after it returned None, gives another element
          /\ st.element = "orig" /\ ~page.detached
          /\ st' = [st EXCEPT !.element = "new", !.recovered = "replaced"]
          /\ page' = [page EXCEPT !.detached = FALSE]
          /\ pc' = "scroll"
          /\ UNCHANGED result
       \/ \* an id or a class, and both return None: return False
          /\ st.element = "orig" /\ ~page.detached
          /\ Ret("false")
          /\ UNCHANGED <<st, page>>
       \/ \* neither id nor class: new_element is still the handle passed
          /\ st.element = "orig" /\ ~page.detached
          /\ st' = [st EXCEPT !.recovered = "unverified"]
          /\ pc' = "scroll"
          /\ UNCHANGED <<page, result>>
    /\ UNCHANGED <<op, clock>>

\* lines 142-150: scrollIntoView, its failure ignored; then the first attempt.
ClickScroll ==
    /\ op = "click" /\ pc = "scroll"
    /\ \/ /\ st.try_scroll
          /\ \E c \in ElemCalls(page.detached) :
               /\ page' = [page EXCEPT !.detached = c[2]]
               /\ st' = [NoteDetach(st, c[2], "scroll") EXCEPT !.attempt = 1]
       \/ /\ ~st.try_scroll
          /\ st' = [st EXCEPT !.attempt = 1]
          /\ UNCHANGED page
    /\ pc' = "attempt"
    /\ UNCHANGED <<op, clock, result>>

\* line 154: if use_js or attempt > 0  (attempt here is 1-based)
UsesScriptMutFlagOnly(s) == s.use_js
UsesScript(s) == s.use_js \/ s.attempt > 1

\* What follows an exception of kind k raised by the click of an attempt.
AfterClickError(k) ==
    CASE k = "intercepted" -> "fallback"
      [] k = "stale" -> "reprobe"
      [] OTHER -> "break"

\* line 200: return False, after the loop
ClickExhaustedMutTrue == "true"
ClickExhausted == "false"

\* The end of one iteration of `for attempt in range(3)` that did not return.
ClickContinue(s) ==
    IF s.attempt < click_attempts
    THEN /\ st' = [s EXCEPT !.attempt = @ + 1] /\ pc' = "attempt" /\ UNCHANGED result
    ELSE /\ st' = s /\ Ret(ClickExhausted)

\* lines 153-171: the click of the attempt.
ClickAttempt ==
    /\ op = "click" /\ pc = "attempt"
    /\ \/ \* script click
          /\ UsesScript(st)
          /\ \E c \in ElemCalls(page.detached) :
               /\ page' = [page EXCEPT !.detached = c[2]]
               /\ LET s == Logged(NoteDetach(st, c[2], "click"), "script", c[1] = "ok") IN
                  IF c[1] = "ok" THEN st' = s /\ Ret("true")
                  ELSE IF AfterClickError(c[1]) = "break" THEN st' = s /\ Ret("false")
                  ELSE st' = s /\ pc' = AfterClickError(c[1]) /\ UNCHANGED result
       \/ \* pointer-events script raises before the native click
          /\ ~UsesScript(st)
          /\ \E c \in ElemCalls(page.detached) :
               /\ c[1] # "ok"
               /\ page' = [page EXCEPT !.detached = c[2]]
               /\ LET s == NoteDetach(st, c[2], "click") IN
                  IF AfterClickError(c[1]) = "break" THEN st' = s /\ Ret("false")
                  ELSE st' = s /\ pc' = AfterClickError(c[1]) /\ UNCHANGED result
       \/ \* pointer-events script, then element.click()
          /\ ~UsesScript(st)
          /\ ~page.detached
          /\ \E c \in ElemCalls(page.detached) :
               /\ page' = [page EXCEPT !.detached = c[2]]
               /\ LET s == Logged(NoteDetach(st, c[2], "click"), "native", c[1] = "ok") IN
                  IF c[1] = "ok" THEN st' = s /\ Ret("true")
                  ELSE IF AfterClickError(c[1]) = "break" THEN st' = s /\ Ret("false")
                  ELSE st' = s /\ pc' = AfterClickError(c[1]) /\ UNCHANGED result
    /\ UNCHANGED <<op, clock>>

\* lines 173-190: ElementClickInterceptedException -> dispatch mouse events.
\* lines 175-187: the dispatching script ran without an error: return True
FallbackReturnsMutNever(k) == FALSE
FallbackReturns(k) == k = "ok"

ClickFallback ==
    /\ op = "click" /\ pc = "fallback"
    /\ \E c \in ElemCalls(page.detached) :
         /\ page' = [page EXCEPT !.detached = c[2]]
         /\ LET s == Logged(NoteDetach(st, c[2], "fallback"), "dispatch", c[1] = "ok") IN
            IF FallbackReturns(c[1]) THEN st' = s /\ Ret("true")
            ELSE ClickContinue(s)
    /\ UNCHANGED <<op, clock>>

\* lines 193-196: a stale error: break when the element is gone, else go on.
StaleBreaksMutNever(live) == FALSE
StaleBreaks(live) == ~live

ClickReprobe ==
    /\ op = "click" /\ pc = "reprobe"
    /\ \E p \in ElementExists(FALSE, page.detached) :
         /\ page' = [page EXCEPT !.detached = p[2]]
         /\ LET s == NoteDetach(st, p[2], "reprobe") IN
            IF StaleBreaks(p[1]) THEN st' = s /\ Ret("false")
            ELSE ClickContinue(s)
    /\ UNCHANGED <<op, clock>>

Click == ClickEntry \/ ClickRecover \/ ClickScroll \/ ClickAttempt
            \/ ClickFallback \/ ClickReprobe

(***************************************************************************)
(* Form fields.                                                            *)
(*                                                                         *)
(* page.value is the field's value attribute, page.widget how the field    *)
(* reacts to input:                                                        *)
(*   "plain"   keystrokes are appended, a scripted assignment is kept;     *)
(*   "nokeys"  keystrokes are dropped (a disabled widget), a scripted      *)
(*             assignment is kept;                                         *)
(*   "mask"    an input mask keeps the digits and puts a separator between *)
(*             them, on keystrokes and on dispatched input events;         *)
(*   "frozen"  neither keystrokes nor scripts change the value.            *)
(***************************************************************************)
Widgets == {"plain", "nokeys", "mask", "frozen"}

IsDigit(c) == c = "1"
Digits(v) == SelectSeq(v, IsDigit)

\* The mask's format: the digits with a separator between neighbours.
Format(d) ==
    IF d = <<>> THEN <<>>
    ELSE [i \in 1..(2 * Len(d) - 1) |-> IF i % 2 = 1 THEN d[(i + 1) \div 2] ELSE "-"]

\* The value after element.send_keys(t).
Typed(w, v, t) ==
    CASE w = "plain" -> v \o t
      [] w = "mask" -> Format(Digits(v \o t))
      [] OTHER -> v

\* The value after the script `arguments[0].value = t`.
Assigned(w, v, t) == IF w = "frozen" THEN v ELSE t

\* The value after the script that assigns t and dispatches change and input.
AssignedWithEvents(w, v, t) ==
    CASE w = "frozen" -> v
      [] w = "mask" -> Format(Digits(t))
      [] OTHER -> t

\* The value after element.clear() or the script `arguments[0].value = ''`.
Cleared(w, v) == IF w = "frozen" THEN v ELSE <<>>

FieldPages ==
    [kind : {"field"}, value : Texts, widget : Widgets, enabled : BOOLEAN]

(***************************************************************************)
(* fill_field(by, selector, text, clear=True)                              *)
(***************************************************************************)
fill_attempts == 3

\* lines 281, 297: if current_value == text
ValueMatchesMutContains(current_value, text) ==
    \E i \in 0..Len(current_value) :
        Len(current_value) >= i + Len(text)
        /\ SubSeq(current_value, i + 1, i + Len(text)) = text
ValueMatches(current_value, text) == current_value = text

\* lines 240-242: recovery gave no element either.
FillUnresolvedMutRaise == "raised"
FillUnresolved == "false"

\* lines 307-309: except Exception -> return False
FillOuterCatch == "false"

StartFill ==
    /\ op = "idle"
    /\ op' = "fill" /\ pc' = "resolve"
    /\ \E t \in Texts, c \in BOOLEAN, pg \in FieldPages :
         /\ st' = [text |-> t, clear |-> c, attempts |-> fill_attempts,
                   current_value |-> None, element |-> "unset", keys |-> 0,
                   assigns |-> 0, typed |-> None, raised |-> FALSE]
         /\ page' = pg
    /\ UNCHANGED <<clock, result>>

\* lines 237-242: resolve in Visible mode, recover when absent or not live.
FillResolve ==
    /\ op = "fill" /\ pc = "resolve"
    /\ \/ \* wait_for_element_visible raises an error other than a timeout
          /\ st' = [st EXCEPT !.element = "error"]
          /\ Ret(FillOuterCatch)
       \/ \* found and live
          /\ st' = [st EXCEPT !.element = "found"]
          /\ pc' = "enabled" /\ UNCHANGED result
       \/ \* None, or not live: ensure_valid_element returns an element
          /\ st' = [st EXCEPT !.element = "recovered"]
          /\ pc' = "enabled" /\ UNCHANGED result
       \/ \* None, or not live: ensure_valid_element returns None
          /\ st' = [st EXCEPT !.element = "unresolved"]
          /\ Ret(FillUnresolved)
    /\ UNCHANGED <<op, page, clock>>

\* lines 244-260: a disabled field loses its disabled/readonly attributes;
\* then scrollIntoView and focus, whose failure is only logged.
FillEnabled ==
    /\ op = "fill" /\ pc = "enabled"
    /\ \/ \* is_enabled() raises
          /\ Ret(FillOuterCatch) /\ UNCHANGED page
       \/ /\ page.enabled
          /\ pc' = "clear" /\ UNCHANGED <<page, result>>
       \/ \* disabled, and the script raises: return False
          /\ ~page.enabled
          /\ Ret("false") /\ UNCHANGED page
       \/ \* disabled, the script runs: the field is enabled by it, or not
          /\ ~page.enabled
          /\ \E e \in BOOLEAN : page' = [page EXCEPT !.enabled = e]
          /\ pc' = "clear" /\ UNCHANGED result
    /\ UNCHANGED <<op, st, clock>>

\* lines 262-274: clear natively, else by script; a failure is only logged.
FillClear ==
    /\ op = "fill" /\ pc = "clear"
    /\ \/ /\ ~st.clear
          /\ UNCHANGED page
       \/ \* element.clear(), or the script after it failed
          /\ st.clear
          /\ page' = [page EXCEPT !.value = Cleared(page.widget, @)]
       \/ \* both raise
          /\ st.clear
          /\ UNCHANGED page
    /\ pc' = "type"
    /\ UNCHANGED <<op, st, clock, result>>

\* lines 301-302 and the loop test: attempts -= 1; while attempts > 0
FillRetry(s) ==
    IF s.attempts - 1 > 0
    THEN /\ st' = [s EXCEPT !.attempts = @ - 1] /\ pc' = "type" /\ UNCHANGED result
    ELSE /\ st' = [s EXCEPT !.attempts = @ - 1] /\ Ret("false")

\* lines 279-282: send the keys, read the value back, compare.
FillType ==
    /\ op = "fill" /\ pc = "type"
    /\ \/ \* send_keys raises
          /\ UNCHANGED page
          /\ FillRetry([st EXCEPT !.raised = TRUE])
       \/ \* send_keys runs, get_attribute raises
          /\ page' = [page EXCEPT !.value = Typed(page.widget, @, st.text)]
          /\ FillRetry([st EXCEPT !.keys = @ + 1, !.raised = TRUE])
       \/ \* send_keys runs, the value is read
          /\ LET v == Typed(page.widget, page.value, st.text)
                 s == [st EXCEPT !.keys = @ + 1, !.current_value = <<v>>,
                                 !.typed = <<v>>] IN
               /\ page' = [page EXCEPT !.value = v]
               /\ st' = s
               /\ IF ValueMatches(v, st.text) THEN Ret("true")
                  ELSE pc' = "script" /\ UNCHANGED result
    /\ UNCHANGED <<op, clock>>

\* lines 284-295: the value both scripts are given to assign: arguments[1]
ScriptArgumentMutEmpty(text) == <<>>
ScriptArgument(text) == text

\* lines 284-298: assign by script, assign again and dispatch change/input,
\* read the value back, compare.  st.typed is the value read after the keys,
\* st.raised whether a driver call of the loop raised.
FillScript ==
    /\ op = "fill" /\ pc = "script"
    /\ \/ \* the first script raises
          /\ UNCHANGED page
          /\ FillRetry([st EXCEPT !.raised = TRUE])
       \/ \* the second script raises
          /\ page' = [page EXCEPT !.value = Assigned(page.widget, @, ScriptArgument(st.text))]
          /\ FillRetry([st EXCEPT !.assigns = @ + 1, !.raised = TRUE])
       \/ \* both run, get_attribute raises
          /\ page' = [page EXCEPT !.value =
                         AssignedWithEvents(page.widget, @, ScriptArgument(st.text))]
          /\ FillRetry([st EXCEPT !.assigns = @ + 1, !.raised = TRUE])
       \/ \* both run, the value is read
          /\ LET v == AssignedWithEvents(page.widget, page.value, ScriptArgument(st.text))
                 s == [st EXCEPT !.assigns = @ + 1, !.current_value = <<v>>] IN
               /\ page' = [page EXCEPT !.value = v]
               /\ IF ValueMatches(v, st.text) THEN st' = s /\ Ret("true")
                  ELSE FillRetry(s)
    /\ UNCHANGED <<op, clock>>

Fill == FillResolve \/ FillEnabled \/ FillClear \/ FillType \/ FillScript

(***************************************************************************)
(* Results of the operations other operations call.                        *)
(***************************************************************************)
\* click_element returns True or False.
ClickResults == {"true", "false"}
\* wait_for_element_*: the element, None, or an error that is no timeout.
ResolveResults(mode, t) == {ResolveCatch(w) : w \in WaitOutcomes(mode, t)}

(***************************************************************************)
(* find_elements(by, selector)                                             *)
(***************************************************************************)
\* lines 92-94: except Exception -> return []
FindElementsCatchMutRaise == "raised"
FindElementsCatch == "empty"

StartFindElements ==
    /\ op = "idle"
    /\ op' = "findAll" /\ pc' = "query"
    /\ st' = [found |-> 0, error |-> FALSE]
    /\ page' = NoPage
    /\ UNCHANGED <<clock, result>>

FindElements ==
    /\ op = "findAll" /\ pc = "query"
    /\ \/ \* driver.find_elements raises
          /\ st' = [st EXCEPT !.error = TRUE]
          /\ Ret(FindElementsCatch)
       \/ \E n \in 0..MaxMatches :
            /\ st' = [st EXCEPT !.found = n]
            /\ Ret(IF n = 0 THEN "empty" ELSE "elements")
    /\ UNCHANGED <<op, page, clock>>

(***************************************************************************)
(* check_visibility(by, selector, timeout=3)                               *)
(***************************************************************************)
\* lines 322-328: True, or False on TimeoutException
VisibilityCatch(w) ==
    CASE w.res = "found" -> "true"
      [] w.res = "timeout" -> "false"
      [] OTHER -> "raised"

VisibilityResults(t) == {VisibilityCatch(w) : w \in WaitOutcomes("visible", t)}

StartCheckVisibility ==
    /\ op = "idle"
    /\ op' = "visibility" /\ pc' = "wait"
    /\ \E t \in 0..MaxTimeoutArg : \E b \in WaitBehaviours(t) :
         /\ st' = [timeout |-> <<t>>, wait |-> None]
         /\ page' = [kind |-> "wait", beh |-> b]
    /\ clock' = 0
    /\ UNCHANGED result

CheckVisibility ==
    /\ op = "visibility" /\ pc = "wait"
    /\ LET w == WaitUntil("visible", st.timeout[1], page.beh) IN
         /\ st' = [st EXCEPT !.wait = <<w.res>>]
         /\ clock' = clock + w.dt
         /\ Ret(VisibilityCatch(w))
    /\ UNCHANGED <<op, page>>

(***************************************************************************)
(* wait_and_click(by, selector, description, timeout, use_js)              *)
(***************************************************************************)
StartWaitAndClick ==
    /\ op = "idle"
    /\ op' = "waitAndClick" /\ pc' = "wait"
    /\ \E a \in TimeoutArgs :
         st' = [timeout |-> a, element |-> "unset"]
    /\ page' = NoPage
    /\ UNCHANGED <<clock, result>>

\* line 219: element = self.wait_for_element_clickable(...), outside any try
WaitAndClickWait ==
    /\ op = "waitAndClick" /\ pc = "wait"
    /\ \E r \in ResolveResults("clickable", EffectiveTimeout(st.timeout)) :
         /\ st' = [st EXCEPT !.element = r]
         /\ CASE r = "found" -> pc' = "click" /\ UNCHANGED result
              [] r = "none" -> Ret("false")
              [] OTHER -> Ret("raised")
    /\ UNCHANGED <<op, page, clock>>

\* lines 220-221: return self.click_element(element, description, use_js)
WaitAndClickClick ==
    /\ op = "waitAndClick" /\ pc = "click"
    /\ \E r \in ClickResults : Ret(r)
    /\ UNCHANGED <<op, st, page, clock>>

(***************************************************************************)
(* find_similar_element(original_element, description)                     *)
(*                                                                         *)
(* The four strategies in turn: "id", "class", "text", "tag".  A strategy  *)
(* is skipped when the original has no such attribute, hits when a         *)
(* candidate is displayed and enabled, misses when none is, and any driver *)
(* error ends the search with None (lines 376-378).                        *)
(*                                                                         *)
(* page.has: the strategies whose attribute the original has (it always    *)
(* has a tag name).  page.cands: for each strategy, whether its query      *)
(* matches no element ("none"), only elements that are not displayed and   *)
(* enabled ("hidden"), or one that is ("shown").  st.from is the strategy  *)
(* that gave the element returned, st.raisedBy what raised: nothing ("no"),*)
(* the lookup of an id no element has ("lookup"), or the driver ("driver").*)
(***************************************************************************)
SimilarStrategies == <<"id", "class", "text", "tag">>

\* lines 376-378: except Exception -> return None
FindSimilarCatch == "none"

SimilarPages ==
    [kind : {"similar"},
     has : {h \cup {"tag"} : h \in SUBSET {"id", "class", "text"}},
     cands : [{"id", "class", "text", "tag"} -> {"none", "hidden", "shown"}]]

\* A query that matches no element: find_element (line 343, by id) raises
\* NoSuchElementException, find_elements (lines 351, 359, 366) gives [].
LookupMiss(name) == IF name = "id" THEN "raise" ELSE "next"

StartFindSimilar ==
    /\ op = "idle"
    /\ op' = "findSimilar" /\ pc' = "strategy"
    /\ st' = [strategy |-> 1, tried |-> <<>>, from |-> "", raisedBy |-> "no"]
    /\ \E pg \in SimilarPages : page' = pg
    /\ UNCHANGED <<clock, result>>

FindSimilarNext(s) ==
    IF s.strategy < Len(SimilarStrategies)
    THEN /\ st' = [s EXCEPT !.strategy = @ + 1] /\ pc' = "strategy" /\ UNCHANGED result
    ELSE /\ st' = s /\ Ret("none")

FindSimilarStrategy ==
    /\ op = "findSimilar" /\ pc = "strategy"
    /\ LET name == SimilarStrategies[st.strategy]
           s == [st EXCEPT !.tried = Append(@, name)] IN
         \/ \* reading the attribute, querying or asking a candidate raises
            /\ st' = [s EXCEPT !.raisedBy = "driver"] /\ Ret(FindSimilarCatch)
         \/ \* the original has no such attribute
            /\ name \notin page.has
            /\ FindSimilarNext(st)
         \/ \* a candidate is displayed and enabled
            /\ name \in page.has /\ page.cands[name] = "shown"
            /\ st' = [s EXCEPT !.from = name] /\ Ret("element")
         \/ \* candidates, none of them displayed and enabled
            /\ name \in page.has /\ page.cands[name] = "hidden"
            /\ FindSimilarNext(s)
         \/ \* the query matches no element
            /\ name \in page.has /\ page.cands[name] = "none"
            /\ IF LookupMiss(name) = "raise"
               THEN st' = [s EXCEPT !.raisedBy = "lookup"] /\ Ret(FindSimilarCatch)
               ELSE FindSimilarNext(s)
    /\ UNCHANGED <<op, page, clock>>

FindSimilarResults == {"element", "none"}

(***************************************************************************)
(* ensure_valid_element(by, selector, element, description, timeout)       *)
(***************************************************************************)
\* lines 497-501: the list the for loop goes through
RecoveryModesMutSwapped == <<"visible", "present", "clickable">>
RecoveryModes == <<"present", "visible", "clickable">>

StartEnsureValid ==
    /\ op = "idle"
    /\ op' = "ensureValid" /\ pc' = "probe"
    /\ \E e \in {"none", "orig"}, d \in BOOLEAN, a \in {None, <<MaxTimeoutArg>>} :
         /\ st' = [element |-> e, timeout |-> a, strategy |-> 0, tried |-> <<>>,
                   similar |-> FALSE, live |-> FALSE, calls |-> 1]
         /\ page' = [kind |-> "element", detached |-> d]
    /\ UNCHANGED <<clock, result>>

\* line 492: if self.element_exists(element)
EnsureValidKeepsMutNever(live) == FALSE
EnsureValidKeeps(live) == live

\* lines 492-493: if self.element_exists(element): return element
\* st.live is the answer of the probe of this call.
EnsureValidProbe ==
    /\ op = "ensureValid" /\ pc = "probe"
    /\ \E p \in ElementExists(st.element = "none", page.detached) :
         /\ page' = [page EXCEPT !.detached = p[2]]
         /\ IF EnsureValidKeeps(p[1])
            THEN /\ st' = [st EXCEPT !.live = p[1]]
                 /\ Ret("same")
            ELSE /\ st' = [st EXCEPT !.live = p[1], !.strategy = 1]
                 /\ pc' = "strategy" /\ UNCHANGED result
    /\ UNCHANGED <<op, clock>>

\* The caller hands the handle it was given back to ensure_valid_element:
\* a second call, on the element the first one returned.
EnsureValidAgain ==
    /\ op = "ensureValid" /\ pc = "done" /\ result = "same" /\ st.calls = 1
    /\ st' = [st EXCEPT !.calls = 2, !.live = FALSE]
    /\ pc' = "probe"
    /\ UNCHANGED <<op, page, clock, result>>

EnsureValidNext(s) ==
    IF s.strategy < Len(RecoveryModes)
    THEN /\ st' = [s EXCEPT !.strategy = @ + 1] /\ pc' = "strategy"
    ELSE /\ st' = s /\ pc' = "similar"

\* lines 497-507: the three resolutions; an error moves on to the next.
EnsureValidStrategy ==
    /\ op = "ensureValid" /\ pc = "strategy"
    /\ LET mode == RecoveryModes[st.strategy]
           s == [st EXCEPT !.tried = Append(@, mode)] IN
         \E r \in ResolveResults(mode, EffectiveTimeout(st.timeout)) :
            \/ \* a new element that is live
               /\ r = "found"
               /\ st' = s /\ Ret("new") /\ UNCHANGED page
            \/ \* a new element that is not live, None, or an exception
               /\ EnsureValidNext(s) /\ UNCHANGED <<page, result>>
    /\ UNCHANGED <<op, clock>>

\* lines 509-512: return self.find_similar_element(element, description)
EnsureValidSimilar ==
    /\ op = "ensureValid" /\ pc = "similar"
    /\ st' = [st EXCEPT !.similar = TRUE]
    /\ \E r \in FindSimilarResults : Ret(IF r = "element" THEN "similar" ELSE "none")
    /\ UNCHANGED <<op, page, clock>>

EnsureValid == EnsureValidProbe \/ EnsureValidStrategy \/ EnsureValidSimilar
                  \/ EnsureValidAgain

EnsureValidResults == {"same", "new", "similar", "none"}

(***************************************************************************)
(* fill_masked_field(by, selector, text, mask)                             *)
(***************************************************************************)
\* lines 576-578: except Exception -> return False
FillMaskedCatch == "false"

\* line 558: text in current_value or current_value in text
Contains(hay, needle) ==
    \E i \in 0..Len(hay) :
        Len(hay) >= i + Len(needle) /\ SubSeq(hay, i + 1, i + Len(needle)) = needle

StartFillMasked ==
    /\ op = "idle"
    /\ op' = "fillMasked" /\ pc' = "resolve"
    /\ \E t \in Texts, numeric \in BOOLEAN, pg \in FieldPages :
         /\ pg.enabled
         /\ st' = [text |-> t, numericMask |-> numeric, typed |-> 0,
                   current_value |-> None, fallback |-> FALSE, why |-> ""]
         /\ page' = pg
    /\ UNCHANGED <<clock, result>>

\* line 558: current_value and (text in current_value or current_value in text)
MaskedValueAcceptedMutForward(current_value, text) ==
    current_value # <<>> /\ Contains(current_value, text)
MaskedValueAccepted(current_value, text) ==
    /\ current_value # <<>>
    /\ (Contains(current_value, text) \/ Contains(text, current_value))

\* line 574: return True, whatever the value is after the scripts
FallbackResultMutVerified(current_value, text) ==
    IF Contains(current_value, text) THEN "true" ELSE "false"
FallbackResult(current_value, text) == "true"

\* lines 527-552: resolve, suppress the listeners, clear, strip the text.
\* st.why tells why False was returned: "unresolved" or "raised".
FillMaskedPrepare ==
    /\ op = "fillMasked" /\ pc = "resolve"
    /\ \/ \* the wait or the listener script raises
          /\ Ret(FillMaskedCatch) /\ st' = [st EXCEPT !.why = "raised"]
          /\ UNCHANGED page
       \/ \* not found, or found and not live (lines 528-530)
          /\ Ret("false") /\ st' = [st EXCEPT !.why = "unresolved"]
          /\ UNCHANGED page
       \/ \* found and live; clear() and the clearing script run or fail
          /\ \E v \in {page.value, Cleared(page.widget, page.value)} :
               page' = [page EXCEPT !.value = v]
          /\ st' = [st EXCEPT !.text = IF st.numericMask THEN Digits(@) ELSE @]
          /\ pc' = "keys" /\ UNCHANGED result
    /\ UNCHANGED <<op, clock>>

\* lines 553-555: for char in text: element.send_keys(char)
FillMaskedKeys ==
    /\ op = "fillMasked" /\ pc = "keys"
    /\ st.typed < Len(st.text)
    /\ \/ \* send_keys raises
          /\ Ret(FillMaskedCatch) /\ st' = [st EXCEPT !.why = "raised"]
          /\ UNCHANGED page
       \/ /\ page' = [page EXCEPT !.value = Typed(page.widget, @, <<st.text[st.typed + 1]>>)]
          /\ st' = [st EXCEPT !.typed = @ + 1]
          /\ UNCHANGED <<pc, result>>
    /\ UNCHANGED <<op, clock>>

\* lines 557-559: read the value; a non-empty value that holds the text, or
\* that the text holds, is success.
FillMaskedVerify ==
    /\ op = "fillMasked" /\ pc = "keys"
    /\ st.typed = Len(st.text)
    /\ \/ \* get_attribute raises
          /\ Ret(FillMaskedCatch) /\ st' = [st EXCEPT !.why = "raised"]
       \/ /\ st' = [st EXCEPT !.current_value = <<page.value>>]
          /\ IF MaskedValueAccepted(page.value, st.text)
             THEN Ret("true")
             ELSE pc' = "script" /\ UNCHANGED result
    /\ UNCHANGED <<op, page, clock>>

\* lines 561-574: assign by script, dispatch change/input/blur, return True.
FillMaskedScript ==
    /\ op = "fillMasked" /\ pc = "script"
    /\ \/ \* the assignment raises
          /\ Ret(FillMaskedCatch) /\ st' = [st EXCEPT !.why = "raised"]
          /\ UNCHANGED page
       \/ \* the dispatch raises
          /\ page' = [page EXCEPT !.value = Assigned(page.widget, @, st.text)]
          /\ Ret(FillMaskedCatch) /\ st' = [st EXCEPT !.why = "raised"]
       \/ /\ page' = [page EXCEPT !.value = AssignedWithEvents(page.widget, @, st.text)]
          /\ st' = [st EXCEPT !.fallback = TRUE]
          /\ Ret(FallbackResult(AssignedWithEvents(page.widget, page.value, st.text),
                                st.text))
    /\ UNCHANGED <<op, clock>>

FillMasked == FillMaskedPrepare \/ FillMaskedKeys \/ FillMaskedVerify \/ FillMaskedScript

(***************************************************************************)
(* handle_popup(by, selector, description, timeout)  (dismissGeneric)      *)
(*                                                                         *)
(* page.visible: whether the target of the locator is visible; the popup   *)
(* is there when handle_popup is called.  st.steps lists the steps that    *)
(* were applied, st.unchecked tells that the re-check after an applied     *)
(* step raised, so that what became of the target is not known.            *)
(***************************************************************************)
\* lines 440-441, 449-450, 455-456: if not self.check_visibility(...): return True
StopsWhenGoneMutNever(visible) == FALSE
StopsWhenGone(visible) == ~visible

\* lines 475-477: except Exception -> return False
HandlePopupCatch == "false"

StartHandlePopup ==
    /\ op = "idle"
    /\ op' = "dismissGeneric" /\ pc' = "find"
    /\ st' = [buttons |-> 0, button |-> 0, steps |-> <<>>, unchecked |-> FALSE]
    /\ page' = [kind |-> "popup", visible |-> TRUE]
    /\ UNCHANGED <<clock, result>>

\* lines 428-433: the close-like controls
HandlePopupFind ==
    /\ op = "dismissGeneric" /\ pc = "find"
    /\ \/ Ret(HandlePopupCatch) /\ UNCHANGED st
       \/ \E n \in 0..MaxMatches :
            /\ st' = [st EXCEPT !.buttons = n]
            /\ pc' = "buttons" /\ UNCHANGED result
    /\ UNCHANGED <<op, page, clock>>

\* lines 435-443: click each displayed and enabled control, then look again
HandlePopupButton ==
    /\ op = "dismissGeneric" /\ pc = "buttons"
    /\ st.button < st.buttons
    /\ LET s == [st EXCEPT !.button = @ + 1] IN
         \/ \* not displayed or not enabled, the click fails, or an error
            /\ st' = s /\ UNCHANGED <<pc, page, result>>
         \/ \* clicked, check_visibility raises: except -> continue
            /\ \E vis \in BOOLEAN : page' = [page EXCEPT !.visible = vis]
            /\ st' = [s EXCEPT !.steps = Append(@, "close"), !.unchecked = TRUE]
            /\ UNCHANGED <<pc, result>>
         \/ \* clicked
            /\ \E vis \in BOOLEAN :
                 /\ page' = [page EXCEPT !.visible = vis]
                 /\ st' = [s EXCEPT !.steps = Append(@, "close")]
                 /\ IF StopsWhenGone(vis) THEN Ret("true") ELSE UNCHANGED <<pc, result>>
    /\ UNCHANGED <<op, clock>>

\* line 445: popup = self.wait_for_element_clickable(by, selector, timeout)
HandlePopupResolve ==
    /\ op = "dismissGeneric" /\ pc = "buttons"
    /\ st.button = st.buttons
    /\ \/ Ret(HandlePopupCatch)
       \/ pc' = "popup" /\ UNCHANGED result
       \/ pc' = "sweep" /\ UNCHANGED result
    /\ UNCHANGED <<op, st, page, clock>>

\* lines 447-450: click the popup itself, then look again
HandlePopupClick ==
    /\ op = "dismissGeneric" /\ pc = "popup"
    /\ \/ \* click_element returns False
          /\ pc' = "remove" /\ UNCHANGED <<st, page, result>>
       \/ \* clicked, check_visibility raises
          /\ \E vis \in BOOLEAN : page' = [page EXCEPT !.visible = vis]
          /\ st' = [st EXCEPT !.steps = Append(@, "click"), !.unchecked = TRUE]
          /\ Ret(HandlePopupCatch)
       \/ \* clicked
          /\ \E vis \in BOOLEAN :
               /\ page' = [page EXCEPT !.visible = vis]
               /\ st' = [st EXCEPT !.steps = Append(@, "click")]
               /\ IF StopsWhenGone(vis) THEN Ret("true")
                  ELSE pc' = "remove" /\ UNCHANGED result
    /\ UNCHANGED <<op, clock>>

\* lines 452-458: remove the node by script, then look again; errors pass
HandlePopupRemove ==
    /\ op = "dismissGeneric" /\ pc = "remove"
    /\ \/ \* the script raises
          /\ pc' = "sweep" /\ UNCHANGED <<st, page, result>>
       \/ \* the script runs, check_visibility raises: except -> pass
          /\ \E vis \in BOOLEAN : page' = [page EXCEPT !.visible = vis]
          /\ st' = [st EXCEPT !.steps = Append(@, "remove"), !.unchecked = TRUE]
          /\ pc' = "sweep" /\ UNCHANGED result
       \/ \E vis \in BOOLEAN :
            /\ page' = [page EXCEPT !.visible = vis]
            /\ st' = [st EXCEPT !.steps = Append(@, "remove")]
            /\ IF StopsWhenGone(vis) THEN Ret("true")
               ELSE pc' = "sweep" /\ UNCHANGED result
    /\ UNCHANGED <<op, clock>>

\* lines 460-473: sweep the overlays, return not check_visibility(...)
HandlePopupSweep ==
    /\ op = "dismissGeneric" /\ pc = "sweep"
    /\ \/ \* the script raises
          /\ Ret(HandlePopupCatch) /\ UNCHANGED <<st, page>>
       \/ \* the script runs, check_visibility raises
          /\ \E vis \in BOOLEAN : page' = [page EXCEPT !.visible = vis]
          /\ st' = [st EXCEPT !.steps = Append(@, "sweep"), !.unchecked = TRUE]
          /\ Ret(HandlePopupCatch)
       \/ \E vis \in BOOLEAN :
            /\ page' = [page EXCEPT !.visible = vis]
            /\ st' = [st EXCEPT !.steps = Append(@, "sweep")]
            /\ Ret(IF vis THEN "false" ELSE "true")
    /\ UNCHANGED <<op, clock>>

HandlePopup == HandlePopupFind \/ HandlePopupButton \/ HandlePopupResolve
                 \/ HandlePopupClick \/ HandlePopupRemove \/ HandlePopupSweep

(***************************************************************************)
(* BetBot.collect_reward()                                                 *)
(***************************************************************************)
reward_attempts == 3

\* lines 248-250: except Exception -> return False
CollectRewardCatch == "false"

StartCollectReward ==
    /\ op = "idle"
    /\ op' = "reward" /\ pc' = "wait"
    /\ st' = [attempt |-> 1]
    /\ page' = NoPage
    /\ UNCHANGED <<clock, result>>

\* The end of one iteration of `for attempt in range(attempts)`.
RewardContinueMutKeep(s) ==
    /\ st' = s /\ pc' = "wait" /\ UNCHANGED result
RewardContinue(s) ==
    IF s.attempt < reward_attempts
    THEN /\ st' = [s EXCEPT !.attempt = @ + 1] /\ pc' = "wait" /\ UNCHANGED result
    ELSE /\ st' = s /\ Ret("false")

\* lines 209-218: wait for the main button and click it
CollectRewardWait ==
    /\ op = "reward" /\ pc = "wait"
    /\ \/ \* the wait raises
          /\ Ret(CollectRewardCatch) /\ UNCHANGED st
       \/ \* no element: continue
          /\ RewardContinue(st)
       \/ \* click_element returns False: sleep, next attempt
          /\ RewardContinue(st)
       \/ \* clicked
          /\ pc' = "check" /\ UNCHANGED <<st, result>>
    /\ UNCHANGED <<op, page, clock>>

\* lines 221-241: the block popup, then the prize
CollectRewardCheck ==
    /\ op = "reward" /\ pc = "check"
    /\ \/ \* check_visibility raises
          /\ Ret(CollectRewardCatch) /\ UNCHANGED st
       \/ \* the block popup is visible
          /\ Ret("false") /\ UNCHANGED st
       \/ \* the prize is present, or waiting for it raises
          /\ Ret("true") /\ UNCHANGED st
       \/ \* no prize: sleep, next attempt
          /\ RewardContinue(st)
    /\ UNCHANGED <<op, page, clock>>

CollectReward == CollectRewardWait \/ CollectRewardCheck

(***************************************************************************)
(* BetBot.handle_popups()                                                  *)
(*                                                                         *)
(* clock is time.time() - start_time.  st.selector is the index of the     *)
(* entry of POPUP_SELECTORS being handled, st.inBudget whether every pass  *)
(* so far began before popup_check seconds had passed.                     *)
(*                                                                         *)
(* st.dismissed: a click of the pass under way returned True.              *)
(*                                                                         *)
(* page.gone: the first successful dismissal took every registered popup   *)
(* off the page (they shared a backdrop) and none comes back: from then on *)
(* no entry resolves and none is visible.  While it is FALSE the page may  *)
(* show or hide any entry at any time.                                     *)
(***************************************************************************)
scan_passes == 3
entry_timeout == 3
settle_timeout == 1
settle_pause == 2
entry_pause == 1

\* line 150: while time.time() - start_time < TIMEOUTS["popup_check"] and max_attempts > 0
PopupLoopGuardMutNoBudget(elapsed, max_attempts) == max_attempts > 0
PopupLoopGuard(elapsed, max_attempts) == elapsed < popup_check /\ max_attempts > 0

StartPopups ==
    /\ op = "idle"
    /\ op' = "popups" /\ pc' = "loop"
    /\ st' = [max_attempts |-> scan_passes, popups_closed |-> 0,
              popup_found |-> FALSE, selector |-> 0, inBudget |-> TRUE,
              dismissed |-> FALSE]
    /\ page' = [kind |-> "popups", gone |-> FALSE]
    /\ clock' = 0
    /\ UNCHANGED result

\* lines 150-151: the loop test and the start of a pass
PopupsLoop ==
    /\ op = "popups" /\ pc = "loop"
    /\ IF PopupLoopGuard(clock, st.max_attempts)
       THEN /\ st' = [st EXCEPT !.popup_found = FALSE, !.selector = 1,
                                !.inBudget = @ /\ clock < popup_check,
                                !.dismissed = FALSE]
            /\ pc' = "scan" /\ UNCHANGED result
       ELSE /\ Ret("returned") /\ UNCHANGED st
    /\ UNCHANGED <<op, page, clock>>

\* After one entry: the next entry, or the end of the pass.
PopupsNextEntry(s) ==
    /\ st' = [s EXCEPT !.selector = @ + 1]
    /\ pc' = IF s.selector < NumPopupSelectors THEN "scan" ELSE "endpass"

\* lines 161-166: popups_closed += 1 after a native or scripted click that
\* returned True; line 170 ignores what the click on the body returns.
DismissCountsMutAnyClick(kind, r) == r = "true"
DismissCounts(kind, r) == kind \in {"native", "script"} /\ r = "true"

Counted(s, kind, r) ==
    [s EXCEPT !.clicks = Append(@, <<kind, r>>),
              !.popups_closed = IF DismissCounts(kind, r) THEN @ + 1 ELSE @]

\* lines 160-173 on their own: the dismissal of one resolved entry.
\* st.clicks lists the clicks made as <<kind, what click_element returned>>,
\* st.closed_at_entry is popups_closed before the entry.
StartDismissEntry ==
    /\ op = "idle"
    /\ op' = "dismissEntry" /\ pc' = "native"
    /\ \E n \in 0..1 :
         st' = [popups_closed |-> n, closed_at_entry |-> n, clicks |-> <<>>]
    /\ page' = NoPage
    /\ clock' = 0
    /\ UNCHANGED result

\* line 161: if self._try_click(element, description)
DismissNative ==
    /\ op = "dismissEntry" /\ pc = "native"
    /\ \E r \in ClickResults :
         /\ st' = Counted(st, "native", r)
         /\ IF r = "true"
            THEN Ret("returned") /\ clock' = clock + entry_pause
            ELSE pc' = "script" /\ UNCHANGED <<result, clock>>
    /\ UNCHANGED <<op, page>>

\* line 164: elif self._try_click(element, description, use_js=True)
DismissScript ==
    /\ op = "dismissEntry" /\ pc = "script"
    /\ \E r \in ClickResults :
         /\ st' = Counted(st, "script", r)
         /\ IF r = "true"
            THEN Ret("returned") /\ clock' = clock + entry_pause
            ELSE pc' = "body" /\ UNCHANGED <<result, clock>>
    /\ UNCHANGED <<op, page>>

\* lines 167-173: the body, when find_elements gives one, is clicked
DismissBody ==
    /\ op = "dismissEntry" /\ pc = "body"
    /\ \/ UNCHANGED st
       \/ \E r \in ClickResults : st' = Counted(st, "body", r)
    /\ Ret("returned")
    /\ clock' = clock + entry_pause
    /\ UNCHANGED <<op, page>>

DismissEntry == DismissNative \/ DismissScript \/ DismissBody

\* lines 161-166: a click that returned True.  The first one may have taken
\* every registered popup off the page.
PopupsDismissed(first) ==
    \/ UNCHANGED page
    \/ first /\ page' = [page EXCEPT !.gone = TRUE]

\* lines 152-179: one entry of POPUP_SELECTORS
PopupsScan ==
    /\ op = "popups" /\ pc = "scan"
    /\ \E w \in WaitOutcomes("clickable", entry_timeout) :
         \/ \* the wait raises: except -> continue
            /\ w.res = "error"
            /\ clock' = clock + w.dt
            /\ PopupsNextEntry(st)
            /\ UNCHANGED page
         \/ \* no element: continue
            /\ w.res = "timeout"
            /\ clock' = clock + w.dt
            /\ PopupsNextEntry(st)
            /\ UNCHANGED page
         \/ \* resolved: the native click closes it
            /\ w.res = "found" /\ ~page.gone
            /\ \E d \in 0..MaxClickDur : clock' = clock + w.dt + d + entry_pause
            /\ PopupsNextEntry([st EXCEPT !.popup_found = TRUE, !.popups_closed = @ + 1,
                                          !.dismissed = TRUE])
            /\ PopupsDismissed(st.popups_closed = 0)
         \/ \* resolved: the native click fails, the scripted click closes it
            /\ w.res = "found" /\ ~page.gone
            /\ \E d \in 0..(2 * MaxClickDur) : clock' = clock + w.dt + d + entry_pause
            /\ PopupsNextEntry([st EXCEPT !.popup_found = TRUE, !.popups_closed = @ + 1,
                                          !.dismissed = TRUE])
            /\ PopupsDismissed(st.popups_closed = 0)
         \/ \* resolved: both fail, the body is clicked when it is found
            /\ w.res = "found" /\ ~page.gone
            /\ \E d \in 0..(3 * MaxClickDur) : clock' = clock + w.dt + d + entry_pause
            /\ PopupsNextEntry([st EXCEPT !.popup_found = TRUE])
            /\ UNCHANGED page
    /\ UNCHANGED <<op, result>>

\* lines 181-182: if not popup_found: max_attempts -= 1
RemainingAfterPassMutAlways(max_attempts, popup_found) == max_attempts - 1
RemainingAfterPass(max_attempts, popup_found) ==
    IF ~popup_found THEN max_attempts - 1 ELSE max_attempts

\* lines 181-186: count the empty pass; settle when something was closed
PopupsEndPass ==
    /\ op = "popups" /\ pc = "endpass"
    /\ LET s == [st EXCEPT !.max_attempts = RemainingAfterPass(@, st.popup_found)] IN
         IF s.popups_closed > 0
         THEN /\ st' = [s EXCEPT !.selector = 1]
              /\ clock' = clock + settle_pause
              /\ pc' = "settle"
         ELSE /\ st' = s
              /\ pc' = "loop"
              /\ UNCHANGED clock
    /\ UNCHANGED <<op, page, result>>

\* lines 193-194: if not popup_still_visible: break
SettleBreaksMutNever(popup_still_visible) == FALSE
SettleBreaks(popup_still_visible) == ~popup_still_visible

\* lines 187-194: is any entry still visible?
PopupsSettle ==
    /\ op = "popups" /\ pc = "settle"
    /\ \E w \in WaitOutcomes("visible", settle_timeout) :
         /\ page.gone => w.res # "found"
         /\ clock' = clock + w.dt
         /\ CASE VisibilityCatch(w) = "raised" ->
                   \* check_visibility is called outside any try
                   Ret("raised") /\ UNCHANGED st
              [] VisibilityCatch(w) = "true" ->
                   \* popup_still_visible: the next pass
                   pc' = "loop" /\ UNCHANGED <<st, result>>
              [] OTHER ->
                   IF st.selector < NumPopupSelectors
                   THEN st' = [st EXCEPT !.selector = @ + 1] /\ UNCHANGED <<pc, result>>
                   ELSE IF SettleBreaks(FALSE)
                   THEN Ret("returned") /\ UNCHANGED st
                   ELSE pc' = "loop" /\ UNCHANGED <<st, result>>
    /\ UNCHANGED <<op, page>>

Popups == PopupsLoop \/ PopupsScan \/ PopupsEndPass \/ PopupsSettle

(***************************************************************************)
(* BetBot.do_login(site)                                                   *)
(*                                                                         *)
(* st.acts lists the fills and the submit click as <<name, result>>,       *)
(* st.button_found and st.fields_visible are the locals of the code        *)
(* ("unset" while check_visibility has not been called).                   *)
(***************************************************************************)
login_fields_timeout == 2

\* fill_field returns True or False.
FillResults == {"true", "false"}
\* wait_and_click returns True or False, or raises what the wait raises.
WaitAndClickResults == {"true", "false", "raised"}

\* lines 138-140: except Exception -> return False
LoginCatch == "false"

\* lines 115-127: `if not self.element_handler.fill_field(...): raise`
FillFailedMutNever(r) == FALSE
FillFailed(r) == r # "true"

Acted(s, name, r) == [s EXCEPT !.acts = Append(@, <<name, r>>)]

StartLogin ==
    /\ op = "idle"
    /\ op' = "login" /\ pc' = "get"
    /\ st' = [buttons |-> 0, button |-> 0, button_found |-> FALSE,
              fields_visible |-> "unset", acts |-> <<>>]
    /\ page' = NoPage
    /\ UNCHANGED <<clock, result>>

\* lines 89-93: open the page, list the login buttons
LoginGet ==
    /\ op = "login" /\ pc = "get"
    /\ \/ \* driver.get raises
          /\ Ret(LoginCatch) /\ UNCHANGED st
       \/ \E n \in 0..MaxMatches :
            /\ st' = [st EXCEPT !.buttons = n]
            /\ pc' = "buttons" /\ UNCHANGED result
    /\ UNCHANGED <<op, page, clock>>

\* lines 95-101: click the first displayed login button that can be clicked
LoginButton ==
    /\ op = "login" /\ pc = "buttons"
    /\ st.button < st.buttons
    /\ LET s == [st EXCEPT !.button = @ + 1] IN
         \/ \* is_displayed, get_attribute or re.search raises
            /\ st' = s /\ Ret(LoginCatch)
         \/ \* not displayed, another class, or click_element returned False
            /\ st' = s /\ UNCHANGED <<pc, result>>
         \/ \* clicked: break
            /\ st' = [s EXCEPT !.button_found = TRUE]
            /\ pc' = "username" /\ UNCHANGED result
    /\ UNCHANGED <<op, page, clock>>

\* lines 103-112: no button was clicked: are the fields there already?
LoginFields ==
    /\ op = "login" /\ pc = "buttons"
    /\ st.button = st.buttons
    /\ \E v \in VisibilityResults(login_fields_timeout) :
         CASE v = "raised" -> st' = st /\ Ret(LoginCatch)
           [] v = "false" -> st' = [st EXCEPT !.fields_visible = "false"] /\ Ret("false")
           [] OTHER -> /\ st' = [st EXCEPT !.fields_visible = "true"]
                       /\ pc' = "username" /\ UNCHANGED result
    /\ UNCHANGED <<op, page, clock>>

\* lines 114-119: the username
LoginUsername ==
    /\ op = "login" /\ pc = "username"
    /\ \E r \in FillResults :
         /\ st' = Acted(st, "username", r)
         /\ IF FillFailed(r) THEN Ret(LoginCatch)
            ELSE pc' = "password" /\ UNCHANGED result
    /\ UNCHANGED <<op, page, clock>>

\* lines 121-126: the password
LoginPassword ==
    /\ op = "login" /\ pc = "password"
    /\ \E r \in FillResults :
         /\ st' = Acted(st, "password", r)
         /\ IF FillFailed(r) THEN Ret(LoginCatch)
            ELSE pc' = "submit" /\ UNCHANGED result
    /\ UNCHANGED <<op, page, clock>>

\* lines 128-136: the submit button; return True
LoginSubmit ==
    /\ op = "login" /\ pc = "submit"
    /\ \E r \in WaitAndClickResults :
         /\ st' = Acted(st, "submit", r)
         /\ Ret(IF r = "true" THEN "true" ELSE LoginCatch)
    /\ UNCHANGED <<op, page, clock>>

Login == LoginGet \/ LoginButton \/ LoginFields \/ LoginUsername
           \/ LoginPassword \/ LoginSubmit

(***************************************************************************)
(* BetBot.process_sites()                                                  *)
(*                                                                         *)
(* SITES has st.n entries.  st.site is the index of the site in hand,      *)
(* st.trace the steps run, as <<site, step>>, st.report the entries of     *)
(* consolidated_message, as [site, kind], st.sent the number of times the  *)
(* consolidated message was sent.                                          *)
(***************************************************************************)
\* do_login returns True or False (its body is one try/except Exception).
LoginResults == {"true", "false"}
\* handle_popups returns, or raises what check_visibility raises.
PopupsResults == {"returned", "raised"}
\* collect_reward returns True or False.
RewardResults == {"true", "false"}

StartSites ==
    /\ op = "idle"
    /\ op' = "sites" /\ pc' = "site"
    /\ \E n \in 0..MaxSites :
         st' = [n |-> n, site |-> 0, trace |-> <<>>, report |-> <<>>, sent |-> 0,
                failed |-> {}]
    /\ page' = NoPage
    /\ UNCHANGED <<clock, result>>

\* lines 348 and 375: the next site, or the consolidated message
SitesLoop ==
    /\ op = "sites" /\ pc = "site"
    /\ IF st.site < st.n
       THEN /\ st' = [st EXCEPT !.site = @ + 1]
            /\ pc' = "login" /\ UNCHANGED result
       ELSE /\ st' = [st EXCEPT !.sent = @ + 1]
            /\ Ret("returned")
    /\ UNCHANGED <<op, page, clock>>

Stepped(s, step) == [s EXCEPT !.trace = Append(@, <<s.site, step>>)]

\* st.failed: the steps that returned False, as <<site, step>>.
Failing(s, step, r) ==
    IF r = "false" THEN [s EXCEPT !.failed = @ \cup {<<s.site, step>>}] ELSE s

\* lines 357-358: `if not self.collect_reward(): self.logger.warning(...)`
AfterRewardMutRaise(r) == IF r = "true" THEN "capture" ELSE "error"
AfterReward(r) == "capture"

\* lines 369-373: except Exception: the error entry; finally: sleep; next site
SiteErrorMutAbort(s) ==
    /\ st' = s /\ Ret("raised")
SiteError(s) ==
    /\ st' = [s EXCEPT !.report = Append(@, [site |-> s.site, kind |-> "error"])]
    /\ pc' = "site" /\ UNCHANGED result

\* lines 352-353: if not self.do_login(site): raise Exception("Login failed")
SitesLogin ==
    /\ op = "sites" /\ pc = "login"
    /\ \E r \in LoginResults :
         IF r = "true"
         THEN st' = Stepped(st, "login") /\ pc' = "popups" /\ UNCHANGED result
         ELSE SiteError(Failing(Stepped(st, "login"), "login", r))
    /\ UNCHANGED <<op, page, clock>>

\* line 355: self.handle_popups()
SitesPopups ==
    /\ op = "sites" /\ pc = "popups"
    /\ \E r \in PopupsResults :
         IF r = "returned"
         THEN st' = Stepped(st, "popups") /\ pc' = "reward" /\ UNCHANGED result
         ELSE SiteError(Stepped(st, "popups"))
    /\ UNCHANGED <<op, page, clock>>

\* lines 357-358: a failed collection is only logged
SitesReward ==
    /\ op = "sites" /\ pc = "reward"
    /\ \E r \in RewardResults :
         LET s == Failing(Stepped(st, "reward"), "reward", r) IN
           IF AfterReward(r) = "capture"
           THEN st' = s /\ pc' = "capture" /\ UNCHANGED result
           ELSE SiteError(s)
    /\ UNCHANGED <<op, page, clock>>

\* lines 360-367, 373: capture, save, the value entry; finally: sleep
SitesCapture ==
    /\ op = "sites" /\ pc = "capture"
    /\ st' = [Stepped(Stepped(st, "capture"), "save") EXCEPT
                !.report = Append(@, [site |-> st.site, kind |-> "value"])]
    /\ pc' = "site"
    /\ UNCHANGED <<op, page, clock, result>>

Sites == SitesLoop \/ SitesLogin \/ SitesPopups \/ SitesReward \/ SitesCapture

\* process_sites returns; anything it raises is not an error of a site.
SitesResults == {"returned", "raised"}

(***************************************************************************)
(* BetBot.execute() and BetBot.initialize_driver()                         *)
(*                                                                         *)
(* st.driver: self.driver is set; st.user_data_dir: self.user_data_dir is  *)
(* set.  page.session: a browser session was started; page.quit: it was    *)
(* asked to close; page.dirMade: the profile directory was created;        *)
(* page.dir: it exists.                                                    *)
(***************************************************************************)
StartExecute ==
    /\ op = "idle"
    /\ op' = "execute" /\ pc' = "init"
    /\ st' = [driver |-> FALSE, user_data_dir |-> FALSE, failed |-> "no"]
    /\ page' = [kind |-> "session", session |-> FALSE, quit |-> FALSE,
                dirMade |-> FALSE, dir |-> FALSE]
    /\ UNCHANGED <<clock, result>>

\* lines 399-400 and 55-72
ExecuteInit ==
    /\ op = "execute" /\ pc = "init"
    /\ \/ \* tempfile.mkdtemp() raises
          /\ st' = [st EXCEPT !.failed = "init"]
          /\ pc' = "finally" /\ UNCHANGED page
       \/ \* webdriver.Edge(...) raises
          /\ st' = [st EXCEPT !.user_data_dir = TRUE, !.failed = "init"]
          /\ page' = [page EXCEPT !.dirMade = TRUE, !.dir = TRUE]
          /\ pc' = "finally"
       \/ \* the session starts, implicitly_wait raises
          /\ st' = [st EXCEPT !.user_data_dir = TRUE, !.driver = TRUE, !.failed = "init"]
          /\ page' = [page EXCEPT !.dirMade = TRUE, !.dir = TRUE, !.session = TRUE]
          /\ pc' = "finally"
       \/ \* return True
          /\ st' = [st EXCEPT !.user_data_dir = TRUE, !.driver = TRUE]
          /\ page' = [page EXCEPT !.dirMade = TRUE, !.dir = TRUE, !.session = TRUE]
          /\ pc' = "process"
    /\ UNCHANGED <<op, clock, result>>

\* lines 402-406: process_sites; an exception is logged
ExecuteProcess ==
    /\ op = "execute" /\ pc = "process"
    /\ \E r \in SitesResults :
         st' = [st EXCEPT !.failed = IF r = "raised" THEN "process" ELSE "no"]
    /\ pc' = "finally"
    /\ UNCHANGED <<op, page, clock, result>>

\* lines 408-409: if self.driver: self.driver.quit()
ExecuteQuit ==
    /\ op = "execute" /\ pc = "finally"
    /\ \/ /\ ~st.driver
          /\ pc' = "rmtree" /\ UNCHANGED <<st, page, result>>
       \/ /\ st.driver
          /\ page' = [page EXCEPT !.quit = TRUE]
          /\ pc' = "rmtree" /\ UNCHANGED <<st, result>>
       \/ \* quit() raises: the exception leaves the finally block
          /\ st.driver
          /\ page' = [page EXCEPT !.quit = TRUE]
          /\ st' = [st EXCEPT !.failed = "quit"]
          /\ Ret("raised")
    /\ UNCHANGED <<op, clock>>

\* lines 410-412: shutil.rmtree(self.user_data_dir, ignore_errors=True)
ExecuteRmtree ==
    /\ op = "execute" /\ pc = "rmtree"
    /\ \/ /\ st.user_data_dir /\ page.dir
          /\ page' = [page EXCEPT !.dir = FALSE]
       \/ /\ ~(st.user_data_dir /\ page.dir)
          /\ UNCHANGED page
    /\ Ret("returned")
    /\ UNCHANGED <<op, st, clock>>

Execute == ExecuteInit \/ ExecuteProcess \/ ExecuteQuit \/ ExecuteRmtree

Init ==
    /\ op = "idle" /\ pc = "idle"
    /\ st = NoLocals
    /\ page = NoPage
    /\ clock = 0
    /\ result = "pending"

Next ==
    \/ StartResolve
    \/ ResolveWait
    \/ StartElementExists
    \/ ElementExistsProbe
    \/ StartClick
    \/ Click
    \/ StartFill
    \/ Fill
    \/ StartFindElements
    \/ FindElements
    \/ StartCheckVisibility
    \/ CheckVisibility
    \/ StartWaitAndClick
    \/ WaitAndClickWait
    \/ WaitAndClickClick
    \/ StartFindSimilar
    \/ FindSimilarStrategy
    \/ StartEnsureValid
    \/ EnsureValid
    \/ StartFillMasked
    \/ FillMasked
    \/ StartHandlePopup
    \/ HandlePopup
    \/ StartCollectReward
    \/ CollectReward
    \/ StartDismissEntry
    \/ DismissEntry
    \/ StartPopups
    \/ Popups
    \/ StartLogin
    \/ Login
    \/ StartSites
    \/ Sites
    \/ StartExecute
    \/ Execute

Spec == Init /\ [][Next]_vars

\* The program is one thread that keeps running: a step that can be taken is taken.
FairSpec == Spec /\ WF_vars(Next)

(***************************************************************************)
(* Properties.                                                             *)
(***************************************************************************)
Done(o) == op = o /\ pc = "done"

\* What an operation returns is among the results its callers are given.
SummariesHold ==
    /\ Done("click") => result \in ClickResults
    /\ Done("resolve") => result \in ResolveResults(st.mode, EffectiveTimeout(st.timeout))
    /\ Done("visibility") => result \in VisibilityResults(st.timeout[1])
    /\ Done("findSimilar") => result \in FindSimilarResults
    /\ Done("ensureValid") => result \in EnsureValidResults
    /\ Done("popups") => result \in PopupsResults
    /\ Done("reward") => result \in RewardResults
    /\ Done("sites") => result \in SitesResults
    /\ Done("fill") => result \in FillResults
    /\ Done("waitAndClick") => result \in WaitAndClickResults
    /\ Done("login") => result \in LoginResults

\* C1: whenever fill(locator, text, clear=true) returns true, the value it
\* read last, which is the field's value at that moment, equals text.
C1_FillTrueValueEqualsText ==
    (Done("fill") /\ result = "true" /\ st.clear)
        => (st.current_value = <<st.text>> /\ page.value = st.text)

\* fill returned true for a non-empty text with clear set.
C1_Witness ==
    Done("fill") /\ result = "true" /\ st.clear /\ st.text # <<>> /\ st.assigns > 0

\* The element passed the entry probe and was first found detached during
\* the first attempt, or by the click of the second attempt.
C2_Detached ==
    /\ op = "click" /\ st.entryLive /\ st.detAt # None
    /\ \/ st.detAt[1] = 1
       \/ st.detAt[1] = 2 /\ st.detAt[2] = "click"

\* C2: an element live at entry that becomes permanently detached during or
\* after the first click attempt: click returns false and no third attempt
\* is started.
C2_DetachedNoThirdAttempt ==
    C2_Detached => (st.attempt <= 2 /\ (pc = "done" => result = "false"))

\* The first attempt was intercepted, the element went away, the second
\* attempt met the dead handle and click returned false.
C2_Witness ==
    C2_Detached /\ pc = "done" /\ st.attempt = 2 /\ result = "false"

\* C3 as stated: the popup loop returns no later than popup_check seconds
\* after it started.
C3_ReturnsWithinBudget ==
    (Done("popups") /\ result = "returned") => clock <= popup_check

\* C3 as amended: the budget is tested at the start of each pass only, so
\* every pass begins before popup_check seconds have passed.
C3_PassesBeginWithinBudget == op = "popups" => st.inBudget

\* The loop returned later than popup_check seconds after its start, having
\* closed popups.
C3_Witness ==
    Done("popups") /\ result = "returned" /\ clock > popup_check /\ st.popups_closed > 0

\* C4: for every mode, when no matching element reaches the mode before the
\* timeout has elapsed (the wait runs to its timeout), resolve returns None
\* and raises nothing.
C4_TimeoutGivesNone ==
    (Done("resolve")
       /\ page.beh.failAt = None
       /\ ~Appears(st.mode, EffectiveTimeout(st.timeout), page.beh))
        => result = "none"

\* A visible element that never becomes clickable: the Clickable wait ran
\* out and resolve returned None.
C4_Witness ==
    Done("resolve") /\ st.mode = "clickable" /\ page.beh.level = 2
        /\ page.beh.at = 0 /\ st.wait = <<"timeout">> /\ result = "none"

\* C5: for every timeout t >= 0 the caller gives, resolve returns after at
\* most t plus the fixed margin.
C5_WithinCallerTimeout ==
    (Done("resolve") /\ st.timeout # None) => clock <= st.timeout[1] + WaitMargin

\* The entries of the report are for the sites 1..n, one each, in order.
ReportInOrder(report, n) ==
    Len(report) = n /\ \A i \in 1..n : report[i].site = i

\* The sites do_login was called for, in the order of the calls.
Logins(trace) ==
    LET L == SelectSeq(trace, LAMBDA e : e[2] = "login") IN
        [i \in 1..Len(L) |-> L[i][1]]

\* C6: process_sites attempts every site in list order whatever fails, and
\* the consolidated report, sent once at the end, has exactly one entry per
\* site, in list order.
C6_EverySiteOneEntry ==
    op = "sites" =>
        /\ ReportInOrder(st.report, IF pc \in {"site", "done"} THEN st.site ELSE st.site - 1)
        /\ Logins(st.trace) = [i \in 1..(IF pc = "login" THEN st.site - 1 ELSE st.site) |-> i]
        /\ st.sent = (IF pc = "done" THEN 1 ELSE 0)
        /\ pc = "done" => (result = "returned" /\ st.site = st.n)

\* The first site failed and the second was processed and reported.
C6_Witness ==
    /\ Done("sites") /\ st.n >= 2
    /\ st.report[1].kind = "error" /\ st.report[2].kind = "value"

\* C7: when execute finishes, a session that was started has been asked to
\* close and a profile directory that was created has been removed.
C7_TeardownOnEveryPath ==
    Done("execute") => ((page.session => page.quit) /\ (page.dirMade => ~page.dir))

\* The operations of the element-interaction layer.
LayerOps == {"resolve", "findAll", "click", "waitAndClick", "fill", "fillMasked",
             "visibility", "ensureValid", "findSimilar", "dismissGeneric"}

\* Those whose body is wrapped in `except Exception`.
AbsorbingOps == {"findAll", "click", "fill", "fillMasked", "ensureValid",
                 "findSimilar", "dismissGeneric"}

\* C8 as stated: no operation of the layer lets a driver error out.
C8_NoOperationRaises == (op \in LayerOps /\ pc = "done") => result # "raised"

\* C8 as amended: findAll, click, fill, fillMasked, ensureValid, findSimilar
\* and dismissGeneric never raise; resolve, the visibility check and
\* wait_and_click absorb the timeout, and raise only when the wait itself
\* raised an error that is no timeout.
C8_OnlyWaitsRaise ==
    pc = "done" =>
        /\ op \in AbsorbingOps => result # "raised"
        /\ (op \in {"resolve", "visibility"} /\ result = "raised") => st.wait = <<"error">>
        /\ (op \in {"resolve", "visibility"} /\ st.wait = <<"timeout">>) => result # "raised"
        /\ (op = "waitAndClick" /\ result = "raised") => st.element = "raised"

\* driver.find_elements raised and findAll returned the empty list.
C8_Witness == Done("findAll") /\ st.error /\ result = "empty"

\* C9 as stated: when neither the Visible resolution nor recovery gives an
\* element, fill raises an error instead of returning false.
C9_UnresolvedRaises ==
    (Done("fill") /\ st.element = "unresolved") => result = "raised"

\* C9 as amended: fill returns false without raising in every failure case,
\* the unresolved field included.
C9_UnresolvedReturnsFalse ==
    Done("fill") =>
        /\ result \in {"true", "false"}
        /\ st.element \in {"unresolved", "error"} => result = "false"

\* Neither the resolution nor recovery gave an element; fill returned false.
C9_Witness == Done("fill") /\ st.element = "unresolved" /\ result = "false"

\* The operations C10 names.
BoundedOps == {"click", "fill", "fillMasked", "ensureValid", "reward", "popups"}

\* C10: every invocation of click, fill, fillMasked, ensureValid, reward
\* collection and the popup loop eventually returns, whatever the page does,
\* given that every driver call returns and the clock advances.
C10_EveryCallReturns == [](op \in BoundedOps => <>(pc = "done"))

\* The popup loop used up its scan passes and returned.
C10_Witness == Done("popups") /\ st.max_attempts = 0 /\ result = "returned"


\* C11: when the liveness probe of the handle given to ensureValid succeeds,
\* ensureValid returns that same handle with no re-resolution and no
\* findSimilar query, in the first call and in a second call on the handle
\* the first one returned.
C11_LiveHandleReturnedAsIs ==
    (Done("ensureValid") /\ st.live) =>
        /\ result = "same"
        /\ st.tried = <<>>
        /\ ~st.similar
        /\ st.strategy = 0

C11_Witness ==
    Done("ensureValid") /\ st.live /\ st.calls = 2 /\ result = "same"

\* C12: isLive returns a boolean for every input: false when the handle is
\* absent or the probe raises any error, true when the probe completes; it
\* never propagates an error.
C12_IsLiveAlwaysBoolean ==
    Done("isLive") =>
        /\ result \in {"true", "false"}
        /\ (result = "true") <=> (st.call = "ok")
        /\ (st.element = "none") => (result = "false")

C12_Witness == Done("isLive") /\ st.call = "other" /\ result = "false"

\* C13: isLive leaves the page as it was before the probe, whether the handle
\* is live or stale.
C13_IsLiveLeavesPage == Done("isLive") => page = st.before

C13_Witness ==
    Done("isLive") /\ st.call = "ok" /\ ~page.enabled /\ page = st.before

\* The native click of attempt 1 was intercepted and the mousedown, mouseup,
\* click events were then dispatched without an error.  Events are dispatched
\* only by the handler of the interception error.
C14_InterceptedThenDispatched ==
    /\ op = "click"
    /\ Len(st.log) >= 2
    /\ st.log[1].kind = "native" /\ st.log[1].att = 1 /\ ~st.log[1].ok
    /\ st.log[2].kind = "dispatch" /\ st.log[2].ok

\* C14: when the native click of attempt 1 raises an interception error and
\* the dispatched event sequence runs without error, click returns true in
\* that same attempt and issues no further click action.
C14_FallbackSucceedsSameAttempt ==
    C14_InterceptedThenDispatched =>
        /\ pc = "done" /\ result = "true"
        /\ st.attempt = 1 /\ st.log[2].att = 1
        /\ Len(st.log) = 2

C14_Witness ==
    C14_InterceptedThenDispatched /\ Done("click") /\ result = "true" /\ ~st.use_js

\* Keystrokes were sent to a widget that drops them, the value read back was
\* empty and not the text, and no driver call of the fill loop raised.
C15_KeysLeftFieldEmpty ==
    /\ op = "fill"
    /\ page.widget = "nokeys"
    /\ st.text # <<>>
    /\ st.typed = << <<>> >>
    /\ ~st.raised

\* C15: when the keystrokes leave the value of a keystroke-rejecting field
\* empty and a scripted assignment sets it to text, fill runs the scripted
\* fallback, the re-verification passes and fill returns true.
C15_ScriptedFallbackFills ==
    (C15_KeysLeftFieldEmpty /\ pc = "done") =>
        /\ result = "true"
        /\ st.keys = 1 /\ st.assigns = 1
        /\ page.value = st.text
        /\ st.current_value = <<st.text>>

C15_Witness ==
    C15_KeysLeftFieldEmpty /\ pc = "done" /\ result = "true" /\ st.assigns = 1

\* C16: when the first successful dismissal removes every registered popup
\* from the page, the popup loop finds no entry visible in the settling of
\* that same pass, begins no further scan pass and reports exactly 1 popup
\* dismissed.
C16_SharedBackdropEndsEarly ==
    (op = "popups" /\ page.gone) =>
        /\ st.popups_closed = 1
        /\ pc \in {"scan", "endpass", "settle", "done"}
        /\ (pc = "done" /\ result = "returned") =>
               st.selector = NumPopupSelectors

C16_Witness ==
    Done("popups") /\ page.gone /\ result = "returned" /\ st.popups_closed = 1

\* C17: for a handle that is not live, ensureValid re-resolves by the
\* original locator in the order Present, Visible, Clickable, returns the
\* first live result without trying a later mode, and calls findSimilar only
\* after all three gave no live element.
C17_RecoveryOrder ==
    op = "ensureValid" =>
        /\ Len(st.tried) <= 3
        /\ st.tried = SubSeq(<<"present", "visible", "clickable">>, 1, Len(st.tried))
        /\ st.similar => st.tried = <<"present", "visible", "clickable">>
        /\ (pc = "done" /\ ~st.live) => Len(st.tried) >= 1
        /\ (pc = "done" /\ result = "new") => (~st.similar /\ Len(st.tried) = st.strategy)
        /\ (pc = "done" /\ result \in {"similar", "none"}) => st.similar

C17_Witness ==
    Done("ensureValid") /\ ~st.live /\ result = "new"
    /\ st.tried = <<"present", "visible">> /\ ~st.similar

\* The strategies, by position, that have a displayed-and-enabled candidate.
C18_Available ==
    {i \in 1..4 : /\ <<"id", "class", "text", "tag">>[i] \in page.has
                  /\ page.cands[<<"id", "class", "text", "tag">>[i]] = "shown"}

\* C18: findSimilar tries identifier, class tokens, text content and
\* tag+type+name in that order; a strategy with no displayed-and-enabled
\* candidate (an identifier that matches no element included) falls through
\* to the next; it returns the candidate of the earliest strategy that has
\* one and none only when no strategy has one.  (Driver failures apart.)
C18_FirstCandidateWins ==
    (Done("findSimilar") /\ st.raisedBy # "driver") =>
        IF C18_Available = {}
        THEN result = "none"
        ELSE /\ result = "element"
             /\ \E i \in C18_Available :
                   /\ st.from = <<"id", "class", "text", "tag">>[i]
                   /\ \A j \in C18_Available : i <= j

\* C19: when the entry probe of click's target fails, recovery is invoked
\* before any click action; when recovery yields no live element click
\* returns false with no click action issued; no click action is issued on
\* a handle that failed the entry probe and was not given by recovery.
C19_NoClickWithoutRecovery ==
    op = "click" =>
        /\ \A i \in 1..Len(st.log) :
              st.log[i].probed \/ st.log[i].recovered \in {"same", "replaced"}
        /\ (pc = "done" /\ ~st.entryLive /\ st.recovered = "no") =>
              (result = "false" /\ st.log = <<>>)

\* C20: click makes at most 3 attempts; the native click is used only on
\* attempt 1 and only when useScript is false, every other attempt uses the
\* script click; click returns true at the first attempt whose click variant
\* completes without error.
C20_AttemptVariants ==
    op = "click" =>
        /\ st.attempt <= 3
        /\ \A i \in 1..Len(st.log) :
              /\ st.log[i].att \in 1..3
              /\ st.log[i].kind = "native" => (st.log[i].att = 1 /\ ~st.use_js)
              /\ st.log[i].kind = "script" => (st.log[i].att > 1 \/ st.use_js)
              /\ st.log[i].ok => (i = Len(st.log) /\ pc = "done" /\ result = "true")
              /\ \A j \in 1..Len(st.log) : i < j => st.log[i].att <= st.log[j].att
        /\ (pc = "done" /\ result = "true") =>
              (st.log # <<>> /\ st.log[Len(st.log)].ok
               /\ st.log[Len(st.log)].att = st.attempt)

C20_Witness ==
    /\ Done("click") /\ result = "true" /\ ~st.use_js /\ st.attempt = 3
    /\ Len(st.log) = 3
    /\ st.log[1].kind = "native" /\ st.log[2].kind = "script"
    /\ st.log[3].kind = "script" /\ st.log[3].ok

\* C21: a resolved field that is still disabled after the enabling script
\* (or whose enabling script failed) gets no keystrokes and no scripted
\* assignment, and fill returns false.
C21_DisabledFieldAborts ==
    (op = "fill" /\ st.element \in {"found", "recovered"} /\ ~page.enabled) =>
        /\ st.keys = 0
        /\ st.assigns = 0
        /\ pc = "done" => result = "false"

\* C22: once the scripted fallback of fillMasked ran without error,
\* fillMasked returns true whatever the field's value is; it returns false
\* only when the field was not resolved live or a driver call raised.
C22_FallbackAlwaysSucceeds ==
    Done("fillMasked") =>
        /\ result \in {"true", "false"}
        /\ st.fallback => result = "true"
        /\ (result = "false") <=> (st.why \in {"unresolved", "raised"})

\* The fallback ran on a field that no script changes: true all the same.
C22_Witness ==
    /\ Done("fillMasked") /\ st.fallback /\ result = "true"
    /\ ~Contains(page.value, st.text)

\* C23 as stated: fillMasked returns true without the scripted fallback only
\* when the value read back holds the typed text as a substring.
C23_TrueOnlyWhenValueHoldsText ==
    (Done("fillMasked") /\ result = "true" /\ ~st.fallback) =>
        Contains(st.current_value[1], st.text)

\* C23, amended: the value read back after the keystrokes is accepted
\* exactly when it is not empty and either holds the typed text or is held
\* by it; an accepted value returns true without the fallback, any other
\* value leads to the scripted fallback.
C23_AcceptedEitherWay ==
    (op = "fillMasked" /\ st.current_value # None) =>
        LET v == st.current_value[1]
            accepted == v # <<>> /\ (Contains(v, st.text) \/ Contains(st.text, v)) IN
          /\ accepted => (pc = "done" /\ result = "true" /\ ~st.fallback)
          /\ ~accepted => (pc = "script" \/ (pc = "done" /\ (st.fallback \/ st.why = "raised")))

\* The value is a fragment of the typed text: accepted without the fallback.
C23_Witness ==
    /\ Done("fillMasked") /\ result = "true" /\ ~st.fallback
    /\ ~Contains(st.current_value[1], st.text)
    /\ Contains(st.text, st.current_value[1])

\* C24: the remaining-scan-passes counter of the popup loop starts at 3, goes
\* down by exactly one at the end of each pass in which no entry resolved,
\* is left alone by a pass in which an entry resolved, never goes below 0,
\* and once it is 0 no further pass is scanned: the loop ends.
C24_ScanPassCounter ==
    /\ [](op = "popups" =>
            /\ st.max_attempts \in 0..3
            /\ st.max_attempts = 0 => pc \in {"settle", "loop", "done"})
    /\ [][/\ (op = "idle" /\ op' = "popups") => st'.max_attempts = 3
          /\ (op = "popups" /\ op' = "popups") =>
                IF pc = "endpass" /\ ~st.popup_found
                THEN st'.max_attempts = st.max_attempts - 1
                ELSE st'.max_attempts = st.max_attempts
          /\ (op = "popups" /\ pc = "loop" /\ st.max_attempts = 0) => pc' = "done"]_vars

C24_Witness ==
    /\ Done("popups") /\ result = "returned"
    /\ st.max_attempts = 0 /\ st.popups_closed = 1 /\ ~st.popup_found

\* Whether a native or scripted click of the entry returned true.
C25_Succeeded ==
    \E i \in 1..Len(st.clicks) :
        st.clicks[i][1] \in {"native", "script"} /\ st.clicks[i][2] = "true"

\* C25: for a resolved entry the native click comes first, the scripted click
\* only after the native click returned false, the click on the body only
\* after both returned false; the dismissed total goes up by exactly one
\* when the native or the scripted click returns true and is not changed by
\* the click on the body; in the loop the total changes only so.
C25_DismissalOrderAndCount ==
    /\ [](op = "dismissEntry" =>
            /\ Len(st.clicks) <= 3
            /\ \A i \in 1..Len(st.clicks) :
                  /\ st.clicks[i][1] = <<"native", "script", "body">>[i]
                  /\ i > 1 => st.clicks[i - 1][2] = "false"
            /\ st.popups_closed =
                  st.closed_at_entry + (IF C25_Succeeded THEN 1 ELSE 0)
            /\ (pc = "done" /\ ~C25_Succeeded) => Len(st.clicks) >= 2)
    /\ [][(op = "popups" /\ op' = "popups") =>
             \/ st'.popups_closed = st.popups_closed
             \/ /\ st'.popups_closed = st.popups_closed + 1
                /\ pc = "scan" /\ st'.popup_found]_vars

C25_Witness ==
    /\ Done("dismissEntry")
    /\ st.clicks = << <<"native", "false">>, <<"script", "false">>, <<"body", "true">> >>
    /\ st.popups_closed = st.closed_at_entry

\* C26: the popup loop performs the settling re-check at the end of a pass
\* only if a dismissal succeeded in that same pass; a pass without a
\* successful dismissal never settles and never exits early through it.
C26_SettlingOnlyAfterDismissalInPass ==
    (op = "popups" /\ pc = "settle") => st.dismissed

\* The place of a step in the order of dismissGeneric.
C27_Rank(step) ==
    CASE step = "close" -> 1 [] step = "click" -> 2
      [] step = "remove" -> 3 [] step = "sweep" -> 4

\* C27: dismissGeneric applies close-like controls, the click on the popup,
\* the forced removal and the overlay sweep in that order; after each step
\* it looks at the target again and returns true, with no later step, as
\* soon as the target is not visible: removal and sweep run only while the
\* target is still visible.
C27_StepsInOrderStopWhenGone ==
    op = "dismissGeneric" =>
        /\ \A i, j \in 1..Len(st.steps) :
              i < j => /\ C27_Rank(st.steps[i]) <= C27_Rank(st.steps[j])
                       /\ C27_Rank(st.steps[i]) = C27_Rank(st.steps[j])
                             => st.steps[i] = "close"
        /\ (~st.unchecked /\ ~page.visible) => (pc = "done" /\ result = "true")
        /\ (~st.unchecked /\ pc = "done" /\ result = "true") => ~page.visible

C27_Witness ==
    /\ Done("dismissGeneric") /\ result = "true" /\ ~st.unchecked
    /\ st.steps = <<"close", "click", "remove">> /\ ~page.visible

\* The steps run for site i, in the order they were run.
C28_StepsOf(i) ==
    LET T == SelectSeq(st.trace, LAMBDA e : e[1] = i) IN
        [k \in 1..Len(T) |-> T[k][2]]

\* Site i has been dealt with.
C28_Finished(i) == i < st.site \/ (i = st.site /\ pc \in {"site", "done"})

\* C28: for each site the steps run in the order login, popup dismissal,
\* reward collection, value capture, persistence; after a failed login none
\* of the others runs for that site; a failed reward collection is followed
\* by value capture and persistence all the same.
C28_StepOrderPerSite ==
    op = "sites" =>
        /\ \A k \in 1..Len(st.trace) :
              \A l \in 1..Len(st.trace) : k < l => st.trace[k][1] <= st.trace[l][1]
        /\ \A i \in 1..st.site :
              /\ Len(C28_StepsOf(i)) <= 5
              /\ C28_StepsOf(i) =
                    SubSeq(<<"login", "popups", "reward", "capture", "save">>,
                           1, Len(C28_StepsOf(i)))
              /\ <<i, "login">> \in st.failed => C28_StepsOf(i) = <<"login">>
              /\ (<<i, "reward">> \in st.failed /\ C28_Finished(i)) =>
                    C28_StepsOf(i) = <<"login", "popups", "reward", "capture", "save">>

C28_Witness ==
    /\ Done("sites") /\ st.n >= 2
    /\ <<1, "reward">> \in st.failed /\ st.report[1].kind = "value"
    /\ <<2, "login">> \in st.failed /\ st.report[2].kind = "error"

\* C29: click returns true only if a click action of the call (native click,
\* script click or dispatched event sequence) completed without raising;
\* when every click action issued raised, click returns false.
C29_TrueNeedsCompletedClick ==
    Done("click") =>
        /\ result \in {"true", "false"}
        /\ (result = "true") <=> (\E i \in 1..Len(st.log) : st.log[i].ok)

\* Three attempts, every click action raised.
C29_Witness ==
    /\ Done("click") /\ result = "false" /\ st.attempt = 3
    /\ Len(st.log) >= 3 /\ \A i \in 1..Len(st.log) : ~st.log[i].ok

\* C30: the popup loop never raises to the orchestrator: a driver error in
\* scanning, dismissing or settling is absorbed inside the loop, so that for
\* a site whose popup phase was run, reward collection and value capture
\* are run too.
C30_PopupLoopNeverRaises ==
    /\ Done("popups") => result # "raised"
    /\ op = "sites" =>
          \A i \in 1..st.site :
              (C28_Finished(i) /\ Len(C28_StepsOf(i)) >= 2) =>
                  (Len(C28_StepsOf(i)) = 5 /\ st.report[i].kind = "value")

\* The result of the call named in st.acts, "" when it was not made.
C31_ResultOf(name) ==
    IF \E i \in 1..Len(st.acts) : st.acts[i][1] = name
    THEN (CHOOSE a \in {st.acts[i] : i \in 1..Len(st.acts)} : a[1] = name)[2]
    ELSE ""

\* C31: in login the password is filled only after the username fill
\* returned true, submit is clicked only after both fills returned true;
\* when a fill fails, or neither a login button nor the username field is
\* found, login returns false without clicking submit; login returns true
\* only after the submit click returned true.
C31_LoginOrder ==
    op = "login" =>
        /\ Len(st.acts) <= 3
        /\ \A i \in 1..Len(st.acts) :
              /\ st.acts[i][1] = <<"username", "password", "submit">>[i]
              /\ i > 1 => st.acts[i - 1][2] = "true"
        /\ (st.acts # <<>>) => (st.button_found \/ st.fields_visible = "true")
        /\ pc = "done" =>
              /\ result \in {"true", "false"}
              /\ (result = "true") <=> (C31_ResultOf("submit") = "true")
              /\ ("false" \in {C31_ResultOf("username"), C31_ResultOf("password")})
                    => (result = "false" /\ C31_ResultOf("submit") = "")
              /\ (~st.button_found /\ st.fields_visible = "false")
                    => (result = "false" /\ st.acts = <<>>)

C31_Witness ==
    /\ Done("login") /\ result = "false" /\ st.button_found
    /\ st.acts = << <<"username", "true">>, <<"password", "false">> >>
====
